---- MODULE Spec2Model ----
(***************************************************************************)
(* Conway's Game of Life as implemented by Skrywerbeer/game-of-life:       *)
(* the GameOfLifeModel class (src/game-of-life.js) and the CellNeighbours  *)
(* helper it counts neighbours with, and the timer of the GameOfLife       *)
(* custom element that owns such a model.                                  *)
(*                                                                         *)
(* JavaScript values are modelled as the strings "true", "false" and       *)
(* "undefined".  A JavaScript array is a record: elems holds the indexed   *)
(* elements 0..length-1 (elems[i+1] is element i), props holds the         *)
(* properties written under a negative key (row[-1] = true creates the     *)
(* property "-1" and leaves length alone).                                 *)
(***************************************************************************)
EXTENDS Integers, Sequences, FiniteSets, TLC

\* ------------------------------------------------------------------ bounds
MaxRows == 3
MaxCols == 3
MaxCells == 9
MaxIter == 2
MaxProps == 1
CopyMaxRows == 2
CopyMaxCols == 2

VARIABLES
    ctor,       \* outcome of the constructor call: "pending", "ok" or the error thrown
    cells,      \* GameOfLifeModel.cells: the array of row arrays
    iteration,  \* GameOfLifeModel.iteration
    copied,     \* the model the last copy() call returned, NoModel before
    element     \* the GameOfLife custom element, apart from its model

vars == <<ctor, cells, iteration, copied, element>>

NoModel == [cells |-> <<>>, iteration |-> -1]

\* ------------------------------------------------------------------ errors
NoError == "none"
InvalidSizeError == "Error: Invalid game size"
RowRangeError == "Error: Row access on model out of range."
ColumnRangeError == "Error: Column access on model out of range"
ArrayLengthError == "RangeError: Invalid array length"
UndefinedAccessError == "TypeError: property access on undefined"
IntervalNaNError == "Error: game-of-life: interval attribute is NaN."
CountNaNError == "Error: game-of-life: rows or columns attribute is NaN."

OutOfRange == {RowRangeError, ColumnRangeError}

\* ------------------------------------------------------- JavaScript arrays
Undefined == "undefined"

NoProps == [k \in {} |-> Undefined]

\* new Array(n).fill(false), for n >= 0
FilledArray(n) == [elems |-> [i \in 1..n |-> "false"], props |-> NoProps]

ArrayLength(a) == Len(a.elems)

\* a[idx]
ArrayGet(a, idx) ==
    IF idx >= 0 /\ idx < ArrayLength(a) THEN a.elems[idx + 1]
    ELSE IF idx \in DOMAIN a.props THEN a.props[idx]
    ELSE Undefined

\* a[idx] = v
ArraySet(a, idx, v) ==
    IF idx >= 0 /\ idx < ArrayLength(a)
        THEN [a EXCEPT !.elems[idx + 1] = v]
    ELSE IF idx >= ArrayLength(a)
        THEN [a EXCEPT !.elems =
                 [i \in 1..(idx + 1) |->
                     IF i <= ArrayLength(a) THEN a.elems[i]
                     ELSE IF i = idx + 1 THEN v ELSE Undefined]]
    ELSE [a EXCEPT !.props =
             [k \in (DOMAIN a.props) \cup {idx} |->
                 IF k = idx THEN v ELSE a.props[k]]]

\* a.push(v)
ArrayPush(a, v) == [a EXCEPT !.elems = Append(a.elems, v)]

\* a.pop()
ArrayPop(a) ==
    IF ArrayLength(a) = 0 THEN a
    ELSE [a EXCEPT !.elems = SubSeq(a.elems, 1, ArrayLength(a) - 1)]

\* a.map((element) => { return element; }): a new array of the indexed elements
ArrayMapIdentity(a) == [elems |-> a.elems, props |-> NoProps]

\* ----------------------------------------------------------- CellNeighbours
directions == <<"north", "northEast", "east", "southEast",
                "south", "southWest", "west", "northWest">>

Directions == {directions[i] : i \in 1..Len(directions)}

\* the error directionOffset throws for a string that names no direction
InvalidDirectionError(direction) ==
    "Error: Direction \"" \o direction \o "\" is invalid"

\* directionOffset(direction): the offset, or [thrown] for the default branch
directionOffset(direction) ==
    CASE direction = "north"     -> [row |-> -1, column |-> 0]
      [] direction = "northEast" -> [row |-> -1, column |-> 1]
      [] direction = "east"      -> [row |-> 0, column |-> 1]
      [] direction = "southEast" -> [row |-> 1, column |-> 1]
      [] direction = "south"     -> [row |-> 1, column |-> 0]
      [] direction = "southWest" -> [row |-> 1, column |-> -1]
      [] direction = "west"      -> [row |-> 0, column |-> -1]
      [] direction = "northWest" -> [row |-> -1, column |-> -1]
      [] OTHER -> [thrown |-> InvalidDirectionError(direction)]

\* JavaScript truthiness of the values a cell lookup can yield
Truthy(v) == v = "true"

\* mutant: living() counting the four orthogonal directions only
living_Orthogonal(n) ==
    Cardinality({d \in {"north", "east", "south", "west"} : Truthy(n[d])})

\* get living(): the number of directions whose flag is truthy
living(n) == Cardinality({d \in Directions : Truthy(n[d])})

\* get dead(): the number of directions whose flag is falsy
dead(n) == Cardinality({d \in Directions : ~Truthy(n[d])})

\* ---------------------------------------------------------- GameOfLifeModel
\* get rows()
rows(c) == Len(c)

\* get columns()
columns(c) == IF rows(c) > 0 THEN ArrayLength(c[1]) ELSE 0

\* mutant: the range check with > for >=
checkIndexIsValid_OffByOne(c, row, column) ==
    IF row > Len(c) THEN RowRangeError
    ELSE IF column > (IF Len(c) > 0 THEN ArrayLength(c[1]) ELSE 0)
        THEN ColumnRangeError
    ELSE NoError

\* checkIndexIsValid(row, column): the error it throws, NoError when it returns
checkIndexIsValid(c, row, column) ==
    IF row >= rows(c) THEN RowRangeError
    ELSE IF column >= columns(c) THEN ColumnRangeError
    ELSE NoError

\* this.cells[row] is undefined for a row that is no index of the outer array
RowDefined(c, row) == row >= 0 /\ row < rows(c)

\* lifeAt(row, column): [thrown, value]
lifeAt(c, row, column) ==
    LET e == checkIndexIsValid(c, row, column) IN
    IF e # NoError THEN [thrown |-> e, value |-> Undefined]
    ELSE IF ~RowDefined(c, row)
        THEN [thrown |-> UndefinedAccessError, value |-> Undefined]
    ELSE [thrown |-> NoError, value |-> ArrayGet(c[row + 1], column)]

\* the body shared by reviveCell and killCell: [thrown, cells]
SetCell(c, row, column, v) ==
    LET e == checkIndexIsValid(c, row, column) IN
    IF e # NoError THEN [thrown |-> e, cells |-> c]
    ELSE IF ~RowDefined(c, row)
        THEN [thrown |-> UndefinedAccessError, cells |-> c]
    ELSE [thrown |-> NoError,
          cells |-> [c EXCEPT ![row + 1] = ArraySet(c[row + 1], column, v)]]

reviveCell(c, row, column) == SetCell(c, row, column, "true")

killCell(c, row, column) == SetCell(c, row, column, "false")

\* neighbours(row, column): the CellNeighbours object, a flag per direction
neighbours(c, row, column) ==
    [d \in Directions |->
        LET offset == directionOffset(d)
            got == lifeAt(c, row + offset.row, column + offset.column)
        IN  IF got.thrown # NoError THEN "false" ELSE got.value]

\* mutant: the size check with && for ||
Construct_BothZero(nrows, ncolumns) ==
    IF nrows = 0 /\ ncolumns = 0
        THEN [thrown |-> InvalidSizeError, cells |-> <<>>]
    ELSE IF nrows < 1
        THEN [thrown |-> NoError, cells |-> <<>>]
    ELSE IF ncolumns < 0
        THEN [thrown |-> ArrayLengthError, cells |-> <<>>]
    ELSE [thrown |-> NoError,
          cells |-> [i \in 1..nrows |-> FilledArray(ncolumns)]]

\* the constructor body, run on the fresh object (cells = [], iteration = 0):
\* [thrown, cells]
Construct(nrows, ncolumns) ==
    IF nrows = 0 \/ ncolumns = 0
        THEN [thrown |-> InvalidSizeError, cells |-> <<>>]
    ELSE IF nrows < 1
        THEN [thrown |-> NoError, cells |-> <<>>]
    ELSE IF ncolumns < 0
        THEN [thrown |-> ArrayLengthError, cells |-> <<>>]
    ELSE [thrown |-> NoError,
          cells |-> [i \in 1..nrows |-> FilledArray(ncolumns)]]

\* randomize(): coin[i + 1][j + 1] is what Math.random() < 0.5 makes of cell
\* (i, j), for i < rows and j < columns; elements past columns are not written
randomize(c, coin) ==
    [i \in 1..rows(c) |->
        [c[i] EXCEPT !.elems =
            IF ArrayLength(c[i]) > columns(c)
                THEN coin[i] \o SubSeq(c[i].elems, columns(c) + 1, ArrayLength(c[i]))
                ELSE coin[i]]]

\* mutant: a cell with exactly 2 live neighbours is recorded as dying
RECURSIVE RowChanges_TwoDies(_, _, _)
RowChanges_TwoDies(c, i, j) ==
    IF j >= ArrayLength(c[i + 1]) THEN <<>>
    ELSE LET count == living(neighbours(c, i, j))
             rest == RowChanges_TwoDies(c, i, j + 1)
         IN  <<[row |-> i, column |-> j, state |-> (count = 3)]>> \o rest

\* mutant: only the cells whose state the rule changes are recorded
RECURSIVE RowChanges_OnlyChanged(_, _, _)
RowChanges_OnlyChanged(c, i, j) ==
    IF j >= ArrayLength(c[i + 1]) THEN <<>>
    ELSE LET count == living(neighbours(c, i, j))
             rest == RowChanges_OnlyChanged(c, i, j + 1)
         IN  IF count = 3 /\ ArrayGet(c[i + 1], j) # "true"
                 THEN <<[row |-> i, column |-> j, state |-> TRUE]>> \o rest
             ELSE IF count \notin {2, 3} /\ ArrayGet(c[i + 1], j) = "true"
                 THEN <<[row |-> i, column |-> j, state |-> FALSE]>> \o rest
             ELSE rest

\* the inner loop of computeChanges for row i, from column j on
RECURSIVE RowChanges(_, _, _)
RowChanges(c, i, j) ==
    IF j >= ArrayLength(c[i + 1]) THEN <<>>
    ELSE LET count == living(neighbours(c, i, j))
             rest == RowChanges(c, i, j + 1)
         IN  IF count = 3
                 THEN <<[row |-> i, column |-> j, state |-> TRUE]>> \o rest
             ELSE IF count # 2
                 THEN <<[row |-> i, column |-> j, state |-> FALSE]>> \o rest
             ELSE rest

\* the outer loop of computeChanges, from row i on
RECURSIVE ChangesFrom(_, _)
ChangesFrom(c, i) ==
    IF i >= Len(c) THEN <<>>
    ELSE RowChanges(c, i, 0) \o ChangesFrom(c, i + 1)

\* computeChanges(): the change list, in row-major order
computeChanges(c) == ChangesFrom(c, 0)

\* applyChanges(changes): [thrown, cells]; a throwing setter ends the loop
RECURSIVE applyChanges(_, _)
applyChanges(c, changes) ==
    IF changes = <<>> THEN [thrown |-> NoError, cells |-> c]
    ELSE LET change == Head(changes)
             r == IF change.state
                      THEN reviveCell(c, change.row, change.column)
                      ELSE killCell(c, change.row, change.column)
         IN  IF r.thrown # NoError THEN r
             ELSE applyChanges(r.cells, Tail(changes))

\* mutant: iterate() without this.iteration++
iterate_NoIncrement(c, it) ==
    LET r == applyChanges(c, computeChanges(c)) IN
    [thrown |-> r.thrown, cells |-> r.cells, iteration |-> it]

\* iterate(): [thrown, cells, iteration]
iterate(c, it) ==
    LET r == applyChanges(c, computeChanges(c)) IN
    [thrown |-> r.thrown,
     cells |-> r.cells,
     iteration |-> IF r.thrown = NoError THEN it + 1 ELSE it]

\* addRow()
addRow(c) == Append(c, FilledArray(columns(c)))

\* removeRow()
removeRow(c) ==
    IF rows(c) = 1 THEN c
    ELSE IF Len(c) = 0 THEN c
    ELSE SubSeq(c, 1, Len(c) - 1)

\* addColumn()
addColumn(c) == [i \in 1..Len(c) |-> ArrayPush(c[i], "false")]

\* removeColumn()
removeColumn(c) ==
    IF columns(c) = 1 THEN c
    ELSE [i \in 1..Len(c) |-> ArrayPop(c[i])]

\* copy(): [thrown, model]
copy(c) ==
    LET made == Construct(rows(c), columns(c)) IN
    IF made.thrown # NoError THEN [thrown |-> made.thrown, model |-> NoModel]
    ELSE [thrown |-> NoError,
          model |-> [cells |-> [i \in 1..rows(made.cells) |-> ArrayMapIdentity(c[i])],
                     iteration |-> 0]]

\* --------------------------------------------------------------- GameOfLife
\* The custom element. Its model field is the model of the variables ctor,
\* cells and iteration: this.model is null until ctor = "ok".
Absent == "null"
DEFAULT_COUNT == 50

observedAttributes == {"rows", "columns", "timer", "interval"}

\* the attribute values that Number() converts to a number; Number() of any
\* other value the element is given ("x") is NaN
Numerals == {"0", "1", "2", "3", "250", "500"}

\* isNaN(Number(value))
isNaN(value) == value \notin Numerals

\* Number(value), for a value that is not converted to NaN
Number(value) ==
    CASE value = "0" -> 0
      [] value = "1" -> 1
      [] value = "2" -> 2
      [] value = "3" -> 3
      [] value = "250" -> 250
      [] value = "500" -> 500

\* the element after its constructor: no attribute set, no model, no timer.
\* timers holds the intervals set by the element and not cleared, each with
\* the id setInterval returned and its delay; lastID is the last id returned;
\* divs is the number of div elements in the view.
NewElement ==
    [connected |-> FALSE,
     attributes |-> [a \in observedAttributes |-> Absent],
     intervalID |-> 0,
     timers |-> {},
     lastID |-> 0,
     divs |-> 0]

hasAttribute(e, name) == e.attributes[name] # Absent

getAttribute(e, name) == e.attributes[name]

\* get rows(), get columns(): [thrown, value]
elementCount(e, name) ==
    IF ~hasAttribute(e, name) THEN [thrown |-> NoError, value |-> DEFAULT_COUNT]
    ELSE IF isNaN(getAttribute(e, name)) THEN [thrown |-> CountNaNError, value |-> 0]
    ELSE [thrown |-> NoError, value |-> Number(getAttribute(e, name))]

\* get timer()
timer(e) == IF hasAttribute(e, "timer") THEN getAttribute(e, "timer") ELSE "run"

\* get interval(): [thrown, value]
interval(e) ==
    IF ~hasAttribute(e, "interval") THEN [thrown |-> NoError, value |-> 1000]
    ELSE IF isNaN(getAttribute(e, "interval"))
        THEN [thrown |-> IntervalNaNError, value |-> 0]
    ELSE [thrown |-> NoError, value |-> Number(getAttribute(e, "interval"))]

\* startTimer(): [thrown, element]; the interval getter can throw
startTimer(e) ==
    IF interval(e).thrown # NoError
        THEN [thrown |-> interval(e).thrown, element |-> e]
    ELSE [thrown |-> NoError,
          element |-> [e EXCEPT
              !.intervalID = e.lastID + 1,
              !.lastID = e.lastID + 1,
              !.timers = e.timers \cup
                  {[id |-> e.lastID + 1, delay |-> interval(e).value]}]]

\* stopTimer()
stopTimer(e) ==
    [e EXCEPT !.timers = {t \in e.timers : t.id # e.intervalID},
              !.intervalID = 0]

\* restartTimer(): [thrown, element]
restartTimer(e) == startTimer(stopTimer(e))

\* attributeChangedCallback(attr, previous, current): [thrown, element]
attributeChangedCallback(e, attr, previous, current) ==
    CASE attr = "timer" ->
            IF current = "run" THEN startTimer(e)
            ELSE [thrown |-> NoError, element |-> stopTimer(e)]
      [] attr = "interval" ->
            IF e.intervalID # 0 THEN restartTimer(e)
            ELSE [thrown |-> NoError, element |-> e]
      [] OTHER -> [thrown |-> NoError, element |-> e]

\* adjustDivCount(): divs are appended up to rows * columns, never removed
adjustDivCount(e, c) ==
    [e EXCEPT !.divs = IF rows(c) * columns(c) > e.divs
                           THEN rows(c) * columns(c) ELSE e.divs]

\* updateDivColors(): the index of the div that shows cell (i, j)
divIndex(c, i, j) == i * columns(c) + j

\* divToCoodinates(div), for the div at position index >= 0 of the view
divToCoodinates(c, index) ==
    [row |-> index \div rows(c), column |-> index % columns(c)]

\* ------------------------------------------------------------ state machine
Fits(nrows, ncolumns) ==
    nrows <= MaxRows /\ ncolumns <= MaxCols /\ nrows * ncolumns <= MaxCells

RowArgs == -1..MaxRows
ColumnArgs == -1..MaxCols

\* the object after its field initialisers, before the constructor body
Init ==
    /\ ctor = "pending"
    /\ cells = <<>>
    /\ iteration = 0
    /\ copied = NoModel
    /\ element = NewElement

\* new GameOfLifeModel(nrows, ncolumns)
construct(nrows, ncolumns) ==
    /\ ctor = "pending"
    /\ Fits(nrows, ncolumns)
    /\ LET r == Construct(nrows, ncolumns) IN
        /\ ctor' = IF r.thrown = NoError THEN "ok" ELSE r.thrown
        /\ cells' = r.cells
    /\ UNCHANGED <<iteration, copied, element>>

\* the number of properties the row arrays hold under negative keys
RECURSIVE PropCount(_)
PropCount(c) ==
    IF c = <<>> THEN 0
    ELSE Cardinality(DOMAIN Head(c).props) + PropCount(Tail(c))

Coins(c) == [1..rows(c) -> [1..columns(c) -> {"true", "false"}]]

\* game.reviveCell(row, column); a throw leaves the model as it was
reviveCellCall(row, column) ==
    /\ ctor = "ok"
    /\ PropCount(reviveCell(cells, row, column).cells) <= MaxProps
    /\ cells' = reviveCell(cells, row, column).cells
    /\ UNCHANGED <<ctor, iteration, copied, element>>

\* game.killCell(row, column); a throw leaves the model as it was
killCellCall(row, column) ==
    /\ ctor = "ok"
    /\ PropCount(killCell(cells, row, column).cells) <= MaxProps
    /\ cells' = killCell(cells, row, column).cells
    /\ UNCHANGED <<ctor, iteration, copied, element>>

\* game.randomize()
randomizeCall ==
    /\ ctor = "ok"
    /\ \E coin \in Coins(cells) : cells' = randomize(cells, coin)
    /\ UNCHANGED <<ctor, iteration, copied, element>>

\* game.iterate()
iterateCall ==
    /\ ctor = "ok"
    /\ iteration < MaxIter
    /\ cells' = iterate(cells, iteration).cells
    /\ iteration' = iterate(cells, iteration).iteration
    /\ UNCHANGED <<ctor, copied, element>>

\* game.addRow()
addRowCall ==
    /\ ctor = "ok"
    /\ Fits(rows(cells) + 1, columns(cells))
    /\ cells' = addRow(cells)
    /\ UNCHANGED <<ctor, iteration, copied, element>>

\* game.removeRow()
removeRowCall ==
    /\ ctor = "ok"
    /\ cells' = removeRow(cells)
    /\ UNCHANGED <<ctor, iteration, copied, element>>

\* game.addColumn()
addColumnCall ==
    /\ ctor = "ok"
    /\ Fits(rows(cells), columns(cells) + 1)
    /\ cells' = addColumn(cells)
    /\ UNCHANGED <<ctor, iteration, copied, element>>

\* game.removeColumn()
removeColumnCall ==
    /\ ctor = "ok"
    /\ cells' = removeColumn(cells)
    /\ UNCHANGED <<ctor, iteration, copied, element>>

Next ==
    \/ \E nrows \in RowArgs, ncolumns \in ColumnArgs : construct(nrows, ncolumns)
    \/ \E row \in RowArgs, column \in ColumnArgs : reviveCellCall(row, column)
    \/ \E row \in RowArgs, column \in ColumnArgs : killCellCall(row, column)
    \/ randomizeCall
    \/ iterateCall
    \/ addRowCall
    \/ removeRowCall
    \/ addColumnCall
    \/ removeColumnCall

Spec == Init /\ [][Next]_vars

\* ------------------------------------------- a model and the copy made of it
\* SpecCopy: the model, a copy() of it, and the public operations on either,
\* on grids of at most CopyMaxRows x CopyMaxCols cells.
CopyRowArgs == -1..CopyMaxRows
CopyColumnArgs == -1..CopyMaxCols

\* let copied = game.copy(); a throw leaves copied as it was
copyCall ==
    /\ ctor = "ok"
    /\ copied = NoModel
    /\ copied' = IF copy(cells).thrown = NoError THEN copy(cells).model ELSE copied
    /\ UNCHANGED <<ctor, cells, iteration, element>>

\* copied.reviveCell(row, column)
copiedReviveCell(row, column) ==
    /\ copied # NoModel
    /\ PropCount(reviveCell(copied.cells, row, column).cells) <= MaxProps
    /\ copied' = [copied EXCEPT !.cells = reviveCell(copied.cells, row, column).cells]
    /\ UNCHANGED <<ctor, cells, iteration, element>>

\* copied.killCell(row, column)
copiedKillCell(row, column) ==
    /\ copied # NoModel
    /\ PropCount(killCell(copied.cells, row, column).cells) <= MaxProps
    /\ copied' = [copied EXCEPT !.cells = killCell(copied.cells, row, column).cells]
    /\ UNCHANGED <<ctor, cells, iteration, element>>

\* copied.randomize()
copiedRandomize ==
    /\ copied # NoModel
    /\ \E coin \in Coins(copied.cells) :
          copied' = [copied EXCEPT !.cells = randomize(copied.cells, coin)]
    /\ UNCHANGED <<ctor, cells, iteration, element>>

\* copied.iterate()
copiedIterate ==
    /\ copied # NoModel
    /\ copied.iteration < MaxIter
    /\ copied' = [cells |-> iterate(copied.cells, copied.iteration).cells,
                  iteration |-> iterate(copied.cells, copied.iteration).iteration]
    /\ UNCHANGED <<ctor, cells, iteration, element>>

\* copied.addRow(), copied.removeRow(), copied.addColumn(), copied.removeColumn()
copiedResize ==
    /\ copied # NoModel
    /\ \/ /\ rows(copied.cells) < CopyMaxRows
          /\ copied' = [copied EXCEPT !.cells = addRow(copied.cells)]
       \/ copied' = [copied EXCEPT !.cells = removeRow(copied.cells)]
       \/ /\ columns(copied.cells) < CopyMaxCols
          /\ copied' = [copied EXCEPT !.cells = addColumn(copied.cells)]
       \/ copied' = [copied EXCEPT !.cells = removeColumn(copied.cells)]
    /\ UNCHANGED <<ctor, cells, iteration, element>>

\* an operation on the model itself
GameStep ==
    \/ \E row \in CopyRowArgs, column \in CopyColumnArgs : reviveCellCall(row, column)
    \/ \E row \in CopyRowArgs, column \in CopyColumnArgs : killCellCall(row, column)
    \/ randomizeCall
    \/ iterateCall
    \/ rows(cells) < CopyMaxRows /\ addRowCall
    \/ removeRowCall
    \/ columns(cells) < CopyMaxCols /\ addColumnCall
    \/ removeColumnCall

\* an operation on the copy
CopiedStep ==
    \/ \E row \in CopyRowArgs, column \in CopyColumnArgs : copiedReviveCell(row, column)
    \/ \E row \in CopyRowArgs, column \in CopyColumnArgs : copiedKillCell(row, column)
    \/ copiedRandomize
    \/ copiedIterate
    \/ copiedResize

NextCopy ==
    \/ \E nrows \in CopyRowArgs, ncolumns \in CopyColumnArgs : construct(nrows, ncolumns)
    \/ GameStep
    \/ copyCall
    \/ CopiedStep

SpecCopy == Init /\ [][NextCopy]_vars

\* ---------------------------------------------------------------- the grid
\* The grid proper: the cells at (row, column) in [0, rows) x [0, columns).
InGrid(c, row, column) ==
    /\ row >= 0 /\ row < rows(c)
    /\ column >= 0 /\ column < columns(c)

GridCells(c) == {rc \in (0..(rows(c) - 1)) \X (0..(columns(c) - 1)) : TRUE}

Alive(c, row, column) == c[row + 1].elems[column + 1] = "true"

MooreOffsets == ((-1..1) \X (-1..1)) \ {<<0, 0>>}

\* The live cells among the Moore neighbours of (row, column) that lie in the grid.
MooreCount(c, row, column) ==
    Cardinality({o \in MooreOffsets :
                    /\ InGrid(c, row + o[1], column + o[2])
                    /\ Alive(c, row + o[1], column + o[2])})

IsCorner(c, row, column) ==
    /\ row \in {0, rows(c) - 1}
    /\ column \in {0, columns(c) - 1}

IsEdge(c, row, column) ==
    \/ row \in {0, rows(c) - 1}
    \/ column \in {0, columns(c) - 1}

Rectangular(c) == \A i \in 1..Len(c) : ArrayLength(c[i]) = columns(c)

\* Conway's rule on the grid as it is: alive next iff 3 live neighbours, or 2 and alive.
AliveNext(c, row, column) ==
    \/ MooreCount(c, row, column) = 3
    \/ MooreCount(c, row, column) = 2 /\ Alive(c, row, column)

\* ------------------------------------------------------------------- claims

\* C1: one iterate() leaves each cell of the grid alive exactly when, in the
\* grid as it was before the call, it had 3 live Moore neighbours, or 2 and was
\* alive; every count is taken on the pre-call grid.
C1_IterateAppliesRule ==
    [][iterateCall =>
        /\ rows(cells') = rows(cells)
        /\ columns(cells') = columns(cells)
        /\ \A rc \in GridCells(cells) :
              Alive(cells', rc[1], rc[2]) <=> AliveNext(cells, rc[1], rc[2])]_vars

\* C2: for every cell of the grid, neighbours(row, column).living is the number
\* of live cells among the Moore neighbours inside the grid (positions outside
\* count as dead), so it is in 0..8, at most 3 in a corner and at most 5 on an
\* edge.
C2_NeighboursCountsGridOnly ==
    ctor = "ok" =>
        \A rc \in GridCells(cells) :
            LET n == living(neighbours(cells, rc[1], rc[2])) IN
            /\ n = MooreCount(cells, rc[1], rc[2])
            /\ n \in 0..8
            /\ IsCorner(cells, rc[1], rc[2]) => n <= 3
            /\ IsEdge(cells, rc[1], rc[2]) => n <= 5

\* C3: every model the constructor returns, and every model reached from it by
\* the public operations, has rows >= 1, columns >= 1 and rows of one length.
C3_DimensionsStayPositive ==
    ctor = "ok" =>
        /\ rows(cells) >= 1
        /\ columns(cells) >= 1
        /\ Rectangular(cells)
\* C4: the generation counter is 0 after construction, grows by exactly 1 on
\* each iterate(), and is left unchanged by every other operation, so it never
\* decreases.
C4_IterationCountsIterates ==
    /\ [](ctor = "pending" => iteration = 0)
    /\ [](ctor = "ok" =>
            /\ iterate(cells, iteration).thrown = NoError
            /\ iterate(cells, iteration).iteration = iteration + 1)
    /\ [][/\ ctor = "pending" => iteration' = 0
          /\ iteration' # iteration =>
                iteration' = iteration + 1 /\ iterateCall]_vars

C4_Witness == ctor = "ok" /\ iteration = 2 /\ rows(cells) = 3 /\ columns(cells) = 3

\* C5: lifeAt, reviveCell and killCell called with a negative row or a negative
\* column fail with the out-of-range error, return no value and leave the model
\* (the grid and every later lifeAt and neighbour count) as it was.  Stated for
\* the models that have a grid.
C5_NegativeIndexOutOfRange ==
    (ctor = "ok" /\ rows(cells) >= 1 /\ columns(cells) >= 1) =>
        \A row \in RowArgs, column \in ColumnArgs :
            (row < 0 \/ column < 0) =>
                /\ lifeAt(cells, row, column).thrown \in OutOfRange
                /\ reviveCell(cells, row, column).thrown \in OutOfRange
                /\ reviveCell(cells, row, column).cells = cells
                /\ killCell(cells, row, column).thrown \in OutOfRange
                /\ killCell(cells, row, column).cells = cells

\* the model c with the cell (row, column) of the grid set to v and nothing else changed
WithCell(c, row, column, v) ==
    [i \in 1..Len(c) |->
        [elems |-> [j \in 1..ArrayLength(c[i]) |->
                       IF i = row + 1 /\ j = column + 1 THEN v ELSE c[i].elems[j]],
         props |-> c[i].props]]

\* C6: for every row >= rows or column >= columns (the current dimensions)
\* lifeAt, reviveCell and killCell throw the out-of-range error and change no
\* cell, no dimension and not the generation counter; for an index inside the
\* grid reviveCell and killCell change the addressed cell and nothing else.
C6_RangeCheckedAccess ==
    /\ [](ctor = "ok" =>
            \A row \in RowArgs, column \in ColumnArgs :
                LET got == lifeAt(cells, row, column)
                    revived == reviveCell(cells, row, column)
                    killed == killCell(cells, row, column)
                IN  /\ (row >= rows(cells) \/ column >= columns(cells)) =>
                          /\ got.thrown \in OutOfRange
                          /\ revived.thrown \in OutOfRange
                          /\ revived.cells = cells
                          /\ killed.thrown \in OutOfRange
                          /\ killed.cells = cells
                    /\ InGrid(cells, row, column) =>
                          /\ got.thrown = NoError
                          /\ got.value = cells[row + 1].elems[column + 1]
                          /\ revived.thrown = NoError
                          /\ revived.cells = WithCell(cells, row, column, "true")
                          /\ killed.thrown = NoError
                          /\ killed.cells = WithCell(cells, row, column, "false"))
    /\ [][\/ /\ iteration' = iteration
             /\ rows(cells') = rows(cells)
             /\ columns(cells') = columns(cells)
          \/ ~(\E row \in RowArgs, column \in ColumnArgs :
                  reviveCellCall(row, column) \/ killCellCall(row, column))]_vars

C6_Witness ==
    /\ ctor = "ok" /\ rows(cells) = 2 /\ columns(cells) = 3 /\ iteration = 1
    /\ reviveCell(cells, 2, 0).thrown = RowRangeError
    /\ killCell(cells, 1, 3).thrown = ColumnRangeError
    /\ Alive(cells, 1, 2) /\ ~Alive(cells, 0, 0)

AllDead(c) == \A rc \in GridCells(c) : c[rc[1] + 1].elems[rc[2] + 1] = "false"

\* C7: for all rows >= 1 and columns >= 1 the constructor succeeds and yields a
\* grid of exactly rows x columns cells, all dead, with generation counter 0;
\* when rows is 0 or columns is 0 it throws the invalid-size error and yields
\* no model.
C7_ConstructorShape ==
    [][ctor = "pending" =>
        \A nrows \in RowArgs, ncolumns \in ColumnArgs :
            construct(nrows, ncolumns) =>
                /\ (nrows >= 1 /\ ncolumns >= 1) =>
                      /\ ctor' = "ok"
                      /\ rows(cells') = nrows
                      /\ columns(cells') = ncolumns
                      /\ Rectangular(cells')
                      /\ AllDead(cells')
                      /\ PropCount(cells') = 0
                      /\ iteration' = 0
                /\ (nrows = 0 \/ ncolumns = 0) =>
                      /\ ctor' = InvalidSizeError
                      /\ cells' = <<>>]_vars

C7_Witness ==
    /\ ctor = "ok" /\ iteration = 0
    /\ rows(cells) = 2 /\ columns(cells) = 3 /\ AllDead(cells)

SameGrid(c, d) ==
    /\ rows(d) = rows(c)
    /\ columns(d) = columns(c)
    /\ \A i \in 1..rows(c) : d[i].elems = c[i].elems

\* C8: copy() returns a model with the dimensions and the cell contents the
\* source has at the call, and shares no storage with it: an operation on one of
\* the two leaves every cell and the dimensions of the other unchanged.
C8_CopyEqualAndIndependent ==
    /\ [](ctor = "ok" =>
            /\ copy(cells).thrown = NoError
            /\ SameGrid(cells, copy(cells).model.cells))
    /\ [][/\ copied = NoModel /\ copied' # NoModel => SameGrid(cells, copied'.cells)
          /\ cells' # cells => copied' = copied \/ copied = NoModel
          /\ copied' # copied => cells' = cells /\ iteration' = iteration]_vars

\* C9: removeRow() is a no-op when rows = 1 and removeColumn() when columns = 1;
\* otherwise each drops the last row (the last cell of every row), leaves the
\* other dimension and the remaining cells unchanged, and no resize operation
\* yields a zero-sized dimension.
C9_ShrinkByOne ==
    ctor = "ok" =>
        /\ IF rows(cells) = 1 THEN removeRow(cells) = cells
           ELSE /\ rows(removeRow(cells)) = rows(cells) - 1
                /\ columns(removeRow(cells)) = columns(cells)
                /\ \A i \in 1..(rows(cells) - 1) : removeRow(cells)[i] = cells[i]
        /\ IF columns(cells) = 1 THEN removeColumn(cells) = cells
           ELSE /\ columns(removeColumn(cells)) = columns(cells) - 1
                /\ rows(removeColumn(cells)) = rows(cells)
                /\ \A i \in 1..rows(cells) :
                      /\ removeColumn(cells)[i].props = cells[i].props
                      /\ removeColumn(cells)[i].elems
                             = SubSeq(cells[i].elems, 1, columns(cells) - 1)
        /\ \A c \in {addRow(cells), removeRow(cells),
                     addColumn(cells), removeColumn(cells)} :
              rows(c) >= 1 /\ columns(c) >= 1

\* C10: addRow() and addColumn() increase rows (columns) by exactly one, the
\* added trailing row or column holds only dead cells, every cell that existed
\* keeps its coordinates and state, and the generation counter is unchanged.
C10_GrowByOneDead ==
    /\ [](ctor = "ok" =>
            /\ rows(addRow(cells)) = rows(cells) + 1
            /\ columns(addRow(cells)) = columns(cells)
            /\ \A i \in 1..rows(cells) : addRow(cells)[i] = cells[i]
            /\ \A j \in 1..columns(cells) :
                  addRow(cells)[rows(cells) + 1].elems[j] = "false"
            /\ columns(addColumn(cells)) = columns(cells) + 1
            /\ rows(addColumn(cells)) = rows(cells)
            /\ \A i \in 1..rows(cells) :
                  /\ addColumn(cells)[i].props = cells[i].props
                  /\ addColumn(cells)[i].elems = Append(cells[i].elems, "false"))
    /\ [][iteration' = iteration \/ ~(addRowCall \/ addColumnCall)]_vars
\* ------------------------------------------------------- pattern scenarios
\* The live cells of the grid.
LiveSet(c) == {rc \in GridCells(c) : Alive(c, rc[1], rc[2])}

Shifted(S, dr, dc) == {<<rc[1] + dr, rc[2] + dc>> : rc \in S}

\* let game = new GameOfLifeModel(nrows, ncolumns), for a scenario's grid
scenarioConstruct(nrows, ncolumns) ==
    /\ ctor = "pending"
    /\ LET r == Construct(nrows, ncolumns) IN
        /\ ctor' = IF r.thrown = NoError THEN "ok" ELSE r.thrown
        /\ cells' = r.cells
    /\ UNCHANGED <<iteration, copied, element>>

\* SpecGlider: a grid of GliderMinDim..GliderMaxDim rows and columns is seeded
\* with the glider (1,2),(2,3),(3,1),(3,2),(3,3) by reviveCell calls in any
\* order and then advanced by GliderGenerations iterate() calls.
GliderMinDim == 6
GliderMaxDim == 10
GliderGenerations == 4

GliderSeed == {<<1, 2>>, <<2, 3>>, <<3, 1>>, <<3, 2>>, <<3, 3>>}

GliderDims == GliderMinDim..GliderMaxDim

\* game.reviveCell(row, column) for a cell of the pattern not yet alive
gliderSeedCell(rc) ==
    /\ ctor = "ok"
    /\ iteration = 0
    /\ rc \notin LiveSet(cells)
    /\ cells' = reviveCell(cells, rc[1], rc[2]).cells
    /\ UNCHANGED <<ctor, iteration, copied, element>>

\* game.iterate(), once the pattern is complete
gliderIterate ==
    /\ ctor = "ok"
    /\ iteration > 0 \/ LiveSet(cells) = GliderSeed
    /\ iteration < GliderGenerations
    /\ cells' = iterate(cells, iteration).cells
    /\ iteration' = iterate(cells, iteration).iteration
    /\ UNCHANGED <<ctor, copied, element>>

NextGlider ==
    \/ \E nrows \in GliderDims, ncolumns \in GliderDims :
          scenarioConstruct(nrows, ncolumns)
    \/ \E rc \in GliderSeed : gliderSeedCell(rc)
    \/ gliderIterate

SpecGlider == Init /\ [][NextGlider]_vars

\* the model after n further iterate() calls: [thrown, cells, iteration]
RECURSIVE IterateTimes(_, _, _)
IterateTimes(c, it, n) ==
    IF n = 0 THEN [thrown |-> NoError, cells |-> c, iteration |-> it]
    ELSE LET r == iterate(c, it) IN
         IF r.thrown # NoError THEN r
         ELSE IterateTimes(r.cells, r.iteration, n - 1)

\* C11: on a grid where the glider (1,2),(2,3),(3,1),(3,2),(3,3) stays clear of
\* the edges, four consecutive iterate() calls yield a grid whose live cells
\* are exactly the initial ones shifted by (+1,+1), with generation counter 4.
C11_GliderTranslates ==
    ctor = "ok" =>
        /\ iteration = 4 => LiveSet(cells) = Shifted(GliderSeed, 1, 1)
        /\ (iteration = 0 /\ LiveSet(cells) = GliderSeed) =>
              /\ IterateTimes(cells, iteration, 4).thrown = NoError
              /\ IterateTimes(cells, iteration, 4).iteration = 4
              /\ LiveSet(IterateTimes(cells, iteration, 4).cells)
                     = Shifted(GliderSeed, 1, 1)

C11_Witness ==
    /\ ctor = "ok" /\ iteration = 4
    /\ rows(cells) = 10 /\ columns(cells) = 10
    /\ LiveSet(cells) = {<<2, 3>>, <<3, 4>>, <<4, 2>>, <<4, 3>>, <<4, 4>>}
\* SpecBlinker: oscillatorTest() (three cells of a row revived, then ten
\* rounds of iterate()), on every grid of BlinkerMinDim..BlinkerMaxDim rows
\* and columns and with the three cells around any centre that keeps them
\* off the border.
OscillatorLoops == 10
BlinkerMinDim == 3
BlinkerMaxDim == 7

BlinkerDims == BlinkerMinDim..BlinkerMaxDim

Horizontal(r, k) == {<<r, k - 1>>, <<r, k>>, <<r, k + 1>>}

Vertical(r, k) == {<<r - 1, k>>, <<r, k>>, <<r + 1, k>>}

\* the cells of the grid that are not on its border
Interior(c) ==
    {rc \in GridCells(c) : /\ rc[1] >= 1 /\ rc[1] <= rows(c) - 2
                           /\ rc[2] >= 1 /\ rc[2] <= columns(c) - 2}

\* game.reviveCell(r, k - 1); game.reviveCell(r, k); game.reviveCell(r, k + 1)
blinkerSeed(r, k) ==
    /\ ctor = "ok"
    /\ iteration = 0
    /\ LiveSet(cells) = {}
    /\ LET first == reviveCell(cells, r, k - 1)
           second == reviveCell(first.cells, r, k)
           third == reviveCell(second.cells, r, k + 1)
       IN  /\ first.thrown = NoError
           /\ second.thrown = NoError
           /\ third.thrown = NoError
           /\ cells' = third.cells
    /\ UNCHANGED <<ctor, iteration, copied, element>>

\* one round of the for loop: game.iterate()
blinkerIterate ==
    /\ ctor = "ok"
    /\ LiveSet(cells) # {}
    /\ iteration < OscillatorLoops
    /\ cells' = iterate(cells, iteration).cells
    /\ iteration' = iterate(cells, iteration).iteration
    /\ UNCHANGED <<ctor, copied, element>>

NextBlinker ==
    \/ \E nrows \in BlinkerDims, ncolumns \in BlinkerDims :
          scenarioConstruct(nrows, ncolumns)
    \/ \E rc \in Interior(cells) : blinkerSeed(rc[1], rc[2])
    \/ blinkerIterate

SpecBlinker == Init /\ [][NextBlinker]_vars

\* the blinker around centre rc in generation it: horizontal in the even
\* generations, vertical in the odd ones
BlinkerPhase(rc, it) ==
    IF it % 2 = 0 THEN Horizontal(rc[1], rc[2]) ELSE Vertical(rc[1], rc[2])

\* C12: three horizontally adjacent cells (r,c-1),(r,c),(r,c+1) off the border
\* become the vertical line (r-1,c),(r,c),(r+1,c) after one iterate(), the
\* horizontal line again after a second, and keep alternating with period 2
\* in every later generation.
C12_BlinkerPeriodTwo ==
    /\ [](ctor = "ok" /\ LiveSet(cells) # {} =>
            \E rc \in Interior(cells) :
                /\ LiveSet(cells) = BlinkerPhase(rc, iteration)
                /\ iterate(cells, iteration).thrown = NoError
                /\ LiveSet(iterate(cells, iteration).cells)
                       = BlinkerPhase(rc, iteration + 1)
                /\ IterateTimes(cells, iteration, 2).cells = cells)
    /\ [][iteration' # iteration =>
            \E rc \in Interior(cells) :
                /\ LiveSet(cells) = BlinkerPhase(rc, iteration)
                /\ LiveSet(cells') = BlinkerPhase(rc, iteration')]_vars

C12_Witness ==
    /\ ctor = "ok" /\ iteration = 3
    /\ rows(cells) = 6 /\ columns(cells) = 5
    /\ LiveSet(cells) = {<<2, 2>>, <<3, 2>>, <<4, 2>>}
\* ------------------------------------------------- the element's callbacks
\* The element is modelled with at most MaxTimers setInterval() calls and with
\* rows and columns attributes of at most ElementMaxCount when it is connected.
MaxTimers == 3
ElementMaxCount == 2

\* the values the page gives the attributes
AttributeValues(name) ==
    CASE name = "rows" -> {"1", "2"}
      [] name = "columns" -> {"1", "2"}
      [] name = "timer" -> {"run", "stop"}
      [] name = "interval" -> {"250", "x"}

\* connectedCallback(); a throw ends it where it is
connectedCallback ==
    /\ ~element.connected
    /\ elementCount(element, "rows").thrown = NoError =>
           elementCount(element, "rows").value <= ElementMaxCount
    /\ elementCount(element, "columns").thrown = NoError =>
           elementCount(element, "columns").value <= ElementMaxCount
    /\ LET nrows == elementCount(element, "rows")
           ncolumns == elementCount(element, "columns")
           made == Construct(nrows.value, ncolumns.value)
           here == [element EXCEPT !.connected = TRUE]
       IN  IF \/ nrows.thrown # NoError
              \/ ncolumns.thrown # NoError
              \/ made.thrown # NoError
               THEN /\ element' = here
                    /\ UNCHANGED <<ctor, cells, iteration>>
           ELSE \E coin \in Coins(made.cells) :
                   /\ ctor' = "ok"
                   /\ cells' = randomize(made.cells, coin)
                   /\ iteration' = 0
                   /\ LET shown == adjustDivCount(here, cells') IN
                      element' = IF timer(shown) = "run"
                                     THEN startTimer(shown).element
                                 ELSE shown
    /\ element'.lastID <= MaxTimers
    /\ UNCHANGED copied

\* the element is taken out of the document; it has no disconnectedCallback
disconnect ==
    /\ element.connected
    /\ element' = [element EXCEPT !.connected = FALSE]
    /\ UNCHANGED <<ctor, cells, iteration, copied>>

\* element.setAttribute(name, value), which calls attributeChangedCallback
setAttribute(name, value) ==
    /\ LET set == [element EXCEPT !.attributes[name] = value] IN
       element' = attributeChangedCallback(set, name,
                                           getAttribute(element, name), value).element
    /\ element'.lastID <= MaxTimers
    /\ UNCHANGED <<ctor, cells, iteration, copied>>

\* element.removeAttribute(name), which calls attributeChangedCallback with
\* null for the current value when the attribute was set
removeAttribute(name) ==
    /\ hasAttribute(element, name)
    /\ LET removed == [element EXCEPT !.attributes[name] = Absent] IN
       element' = attributeChangedCallback(removed, name,
                                           getAttribute(element, name), Absent).element
    /\ element'.lastID <= MaxTimers
    /\ UNCHANGED <<ctor, cells, iteration, copied>>

\* an interval set by the element fires: () => { this.iterate(); }, which is
\* this.model.iterate() and updateDivColors(); with model null it throws
timerTick ==
    /\ element.timers # {}
    /\ iteration < MaxIter
    /\ IF ctor = "ok"
           THEN /\ cells' = iterate(cells, iteration).cells
                /\ iteration' = iterate(cells, iteration).iteration
           ELSE UNCHANGED <<cells, iteration>>
    /\ UNCHANGED <<ctor, copied, element>>

\* element.startTimer(), called by the page
startTimerCall ==
    /\ element' = startTimer(element).element
    /\ element'.lastID <= MaxTimers
    /\ UNCHANGED <<ctor, cells, iteration, copied>>

\* element.stopTimer(), called by the page
stopTimerCall ==
    /\ element' = stopTimer(element)
    /\ UNCHANGED <<ctor, cells, iteration, copied>>

\* element.restartTimer(), called by the page
restartTimerCall ==
    /\ element' = restartTimer(element).element
    /\ element'.lastID <= MaxTimers
    /\ UNCHANGED <<ctor, cells, iteration, copied>>

NextElement ==
    \/ connectedCallback
    \/ disconnect
    \/ \E name \in observedAttributes :
          \E value \in AttributeValues(name) : setAttribute(name, value)
    \/ \E name \in observedAttributes : removeAttribute(name)
    \/ timerTick
    \/ startTimerCall
    \/ stopTimerCall
    \/ restartTimerCall

SpecElement == Init /\ [][NextElement]_vars

\* SpecTimerAttribute: the element is given its rows and columns, connected,
\* and from then on only its timer attribute is changed.
timerAttributeSet(value) ==
    /\ element.connected
    /\ setAttribute("timer", value)

timerAttributeRemoved ==
    /\ element.connected
    /\ removeAttribute("timer")

sizeAttributeSet(name, value) ==
    /\ ~element.connected
    /\ setAttribute(name, value)

NextTimerAttribute ==
    \/ \E name \in {"rows", "columns"} :
          \E value \in AttributeValues(name) : sizeAttributeSet(name, value)
    \/ connectedCallback
    \/ \E value \in AttributeValues("timer") : timerAttributeSet(value)
    \/ timerAttributeRemoved
    \/ timerTick

SpecTimerAttribute == Init /\ [][NextTimerAttribute]_vars

\* C13: for a connected element, in every state reached by timer-attribute
\* changes (set to "run", set to another value, removed), periodic advancement
\* is active exactly when the timer option (the attribute's value, "run" when
\* it is absent) equals "run".
C13_TimerOptionDecidesTicking ==
    element.connected /\ ctor = "ok" =>
        (element.timers # {} <=> timer(element) = "run")
\* ------------------------------------------------------------- change list
\* the cells the loops of computeChanges visit
LoopCells(c) ==
    UNION {{<<i, j>> : j \in 0..(ArrayLength(c[i + 1]) - 1)} : i \in 0..(Len(c) - 1)}

\* the cells named in a change list
Recorded(changes) ==
    {<<changes[k].row, changes[k].column>> : k \in 1..Len(changes)}

\* C14, as stated: the change list of computeChanges() holds only cells whose
\* recorded new state differs from their current state, and never a cell that
\* has exactly 2 live neighbours.
C14_OnlyChangedCells ==
    ctor = "ok" =>
        \A k \in 1..Len(computeChanges(cells)) :
            LET change == computeChanges(cells)[k] IN
            /\ change.state # Alive(cells, change.row, change.column)
            /\ MooreCount(cells, change.row, change.column) # 2

\* C14, amended: the change list holds, once each and in row-major order,
\* exactly the cells for which neighbours(row, column).living is not 2, each
\* with state true when that count is 3 and false otherwise, whether or not
\* that is the state the cell has.
C14_ChangeListIsRuleOutcome ==
    ctor = "ok" =>
        LET changes == computeChanges(cells) IN
        /\ Recorded(changes) =
               {rc \in LoopCells(cells) :
                   living(neighbours(cells, rc[1], rc[2])) # 2}
        /\ \A k \in 1..Len(changes) :
               changes[k].state =
                   (living(neighbours(cells, changes[k].row, changes[k].column)) = 3)
        /\ \A k \in 1..Len(changes) : \A l \in 1..Len(changes) :
               k < l => \/ changes[k].row < changes[l].row
                        \/ /\ changes[k].row = changes[l].row
                           /\ changes[k].column < changes[l].column

\* a change list with a cell recorded in the state it has, a cell recorded
\* alive, and a cell left out for its 2 live neighbours
C14_Witness ==
    /\ ctor = "ok"
    /\ \E k \in 1..Len(computeChanges(cells)) :
          LET change == computeChanges(cells)[k] IN
          change.state = Alive(cells, change.row, change.column)
    /\ \E k \in 1..Len(computeChanges(cells)) : computeChanges(cells)[k].state
    /\ \E rc \in LoopCells(cells) :
          /\ living(neighbours(cells, rc[1], rc[2])) = 2
          /\ rc \notin Recorded(computeChanges(cells))
\* ------------------------------------------- the copy-based iterate (main.ts)
\* The GameOfLifeModel of src/main.ts has the methods of the class above,
\* except iterate(), which fills a copy() of the model and then takes the
\* copy's cells.

\* the loops of iterate() from cell k (row-major, in the copy's dimensions) on:
\* counts are read from counted, cells are set in target; [thrown, cells]
RECURSIVE CopyLoop(_, _, _)
CopyLoop(counted, target, k) ==
    IF k >= rows(target) * columns(target)
        THEN [thrown |-> NoError, cells |-> target]
    ELSE LET i == k \div columns(target)
             j == k % columns(target)
             count == living(neighbours(counted, i, j))
             r == IF count = 3 THEN reviveCell(target, i, j)
                  ELSE IF count # 2 THEN killCell(target, i, j)
                  ELSE [thrown |-> NoError, cells |-> target]
         IN  IF r.thrown # NoError THEN r
             ELSE CopyLoop(counted, r.cells, k + 1)

\* the same loops with the counts read from the copy that is being filled
RECURSIVE InPlaceLoop(_, _)
InPlaceLoop(target, k) ==
    IF k >= rows(target) * columns(target)
        THEN [thrown |-> NoError, cells |-> target]
    ELSE LET i == k \div columns(target)
             j == k % columns(target)
             count == living(neighbours(target, i, j))
             r == IF count = 3 THEN reviveCell(target, i, j)
                  ELSE IF count # 2 THEN killCell(target, i, j)
                  ELSE [thrown |-> NoError, cells |-> target]
         IN  IF r.thrown # NoError THEN r
             ELSE InPlaceLoop(r.cells, k + 1)

\* mutant: copy.neighbours(i, j) for this.neighbours(i, j)
iterateCopyBased_InPlace(c, it) ==
    IF copy(c).thrown # NoError
        THEN [thrown |-> copy(c).thrown, cells |-> c, iteration |-> it]
    ELSE LET r == InPlaceLoop(copy(c).model.cells, 0) IN
         IF r.thrown # NoError
             THEN [thrown |-> r.thrown, cells |-> c, iteration |-> it]
         ELSE [thrown |-> NoError, cells |-> r.cells, iteration |-> it + 1]

\* iterate() of src/main.ts: [thrown, cells, iteration]
iterateCopyBased(c, it) ==
    LET made == copy(c) IN
    IF made.thrown # NoError
        THEN [thrown |-> made.thrown, cells |-> c, iteration |-> it]
    ELSE LET r == CopyLoop(c, made.model.cells, 0) IN
         IF r.thrown # NoError
             THEN [thrown |-> r.thrown, cells |-> c, iteration |-> it]
         ELSE [thrown |-> NoError, cells |-> r.cells, iteration |-> it + 1]

\* game.iterate() of src/main.ts
iterateCopyBasedCall ==
    /\ ctor = "ok"
    /\ iteration < MaxIter
    /\ LET r == iterateCopyBased(cells, iteration) IN
        /\ cells' = r.cells
        /\ iteration' = r.iteration
    /\ UNCHANGED <<ctor, copied, element>>

NextMain ==
    \/ \E nrows \in RowArgs, ncolumns \in ColumnArgs : construct(nrows, ncolumns)
    \/ \E row \in RowArgs, column \in ColumnArgs : reviveCellCall(row, column)
    \/ \E row \in RowArgs, column \in ColumnArgs : killCellCall(row, column)
    \/ randomizeCall
    \/ iterateCopyBasedCall
    \/ addRowCall
    \/ removeRowCall
    \/ addColumnCall
    \/ removeColumnCall

SpecMain == Init /\ [][NextMain]_vars

\* the grids of 1..MaxRows rows and 1..MaxCols columns
Grids ==
    UNION {[1..nrows -> {[elems |-> e, props |-> NoProps] :
                            e \in [1..ncolumns -> {"true", "false"}]}] :
           nrows \in 1..MaxRows, ncolumns \in 1..MaxCols}

\* C15, as stated: there is a grid (the model's own, or any grid of Grids)
\* from which the copy-based iterate() of src/main.ts produces a next grid
\* different from the one the two-phase iterate() produces.
C15_SomeGridDiffers ==
    \E g \in Grids \cup {cells} :
        /\ iterateCopyBased(g, 0).thrown = NoError
        /\ ~SameGrid(iterateCopyBased(g, 0).cells, iterate(g, 0).cells)

\* C15, amended: from every model with at least one row and one column the
\* copy-based iterate() leaves the grid the two-phase iterate() leaves (same
\* dimensions, same cells) and the same generation counter: its counts are
\* all read from this.cells, which it replaces only after the loops.  On a
\* model without rows or without columns it throws the invalid-size error of
\* copy() and changes nothing, where the two-phase iterate() counts a
\* generation over the same empty grid.
C15_CopyBasedMatchesTwoPhase ==
    ctor = "ok" =>
        LET copyBased == iterateCopyBased(cells, iteration)
            twoPhase == iterate(cells, iteration)
        IN  IF rows(cells) >= 1 /\ columns(cells) >= 1
                THEN /\ copyBased.thrown = NoError
                     /\ twoPhase.thrown = NoError
                     /\ SameGrid(copyBased.cells, twoPhase.cells)
                     /\ copyBased.iteration = twoPhase.iteration
            ELSE /\ copyBased.thrown = InvalidSizeError
                 /\ copyBased.cells = cells
                 /\ copyBased.iteration = iteration
                 /\ twoPhase.thrown = NoError
                 /\ twoPhase.cells = cells
                 /\ twoPhase.iteration = iteration + 1

\* a 3x3 grid in its second generation that the next iterate() changes
C15_Witness ==
    /\ ctor = "ok" /\ iteration = 2
    /\ rows(cells) = 3 /\ columns(cells) = 3
    /\ iterateCopyBased(cells, iteration).thrown = NoError
    /\ ~SameGrid(iterateCopyBased(cells, iteration).cells, cells)
\* ---------------------------------------------------- the element's timers
\* C16: in every interleaving of the callbacks and of startTimer, stopTimer
\* and restartTimer at most one interval set by the element is active and
\* intervalID identifies it; so once the timer is stopped (intervalID is 0) no
\* periodic iterate() occurs any more, and none occurs while model is null.
C16_OneTimerTrackedByIntervalID ==
    /\ Cardinality(element.timers) <= 1
    /\ \A t \in element.timers : t.id = element.intervalID
    /\ element.intervalID = 0 => element.timers = {}
    /\ element.timers # {} => ctor = "ok"

\* the interval attribute is set to a value or removed
intervalAttributeChange ==
    \/ \E value \in AttributeValues("interval") : setAttribute("interval", value)
    \/ removeAttribute("interval")

\* C18: when the interval attribute changes (to a value that is a number, or
\* by removal) while a timer is active, the active timer is stopped and
\* replaced by exactly one timer that uses the new interval value; when
\* intervalID is 0 the change starts no timer.
C18_IntervalChangeRestartsOneTimer ==
    [][(intervalAttributeChange /\ interval(element').thrown = NoError) =>
          /\ element.timers # {} =>
                /\ element.timers \cap element'.timers = {}
                /\ element'.timers = {[id |-> element'.intervalID,
                                       delay |-> interval(element').value]}
          /\ element.intervalID = 0 =>
                /\ element'.timers = element.timers
                /\ element'.intervalID = 0]_vars
\* C17: divToCoodinates inverts the row-major layout of updateDivColors: for
\* every grid size rows x columns, square or not, and every cell (r, c), the
\* div at index r * columns + c is mapped back to {row: r, column: c}.
C17_DivToCoordinatesInvertsLayout ==
    ctor = "ok" =>
        \A rc \in GridCells(cells) :
            /\ divIndex(cells, rc[1], rc[2]) < element.divs
            /\ divToCoodinates(cells, divIndex(cells, rc[1], rc[2]))
                   = [row |-> rc[1], column |-> rc[2]]
====
